---- MODULE Spec2Model ----
(***************************************************************************)
(* A model of syn-blog-format (src/src/lib.rs): the element grammar        *)
(* (SynElement::parse_line, generate_line, generate_tag) and the document  *)
(* model (SynFile::load_file, load_file_metadata, save_file).              *)
(*                                                                         *)
(* Text is modelled by TLA+ strings; a character is a string of length 1.  *)
(* Option values are sequences of length 0 (None) or 1 (Some), a Result is *)
(* a record with the field ok.  A u64 is a sequence of decimal digits,     *)
(* most significant first, without leading zeros (zero is <<0>>), so that  *)
(* the whole 64-bit range is represented.                                  *)
(***************************************************************************)
EXTENDS Integers, Sequences, FiniteSets, TLC

VARIABLES
    srcLine,    \* element level: the wire line given to parse_line, if any
    srcElem,    \* element level: the constructed element, if any
    parsed,     \* element level: the Result of parse_line, if called
    wire,       \* element level: the String of generate_line, if called
    html,       \* element level: the String of generate_tag, if called
    mem,        \* document level: the SynFile held in memory, if any
    disk,       \* document level: the text of the file at the path, if any
    written,    \* document level: the parts an author wrote the file from
    loaded,     \* document level: the Result of load_file, if called
    meta        \* document level: the Result of load_file_metadata, if called

elemVars == <<srcLine, srcElem, parsed, wire, html>>
docVars == <<mem, disk, written, loaded, meta>>
vars == <<srcLine, srcElem, parsed, wire, html, mem, disk, written, loaded, meta>>

-----------------------------------------------------------------------------
(* Bounds of the model.                                                    *)

\* the number of tokens a generated element line or text payload is made of
MaxTokens == 3
\* the number of tokens an Image field is made of
MaxFieldTokens == 1
\* the number of element blocks an authored document body holds
MaxBlocks == 2
\* the number of elements a constructed SynFile holds
MaxElems == 2
\* the number of tags a constructed SynFile holds
MaxTags == 2

-----------------------------------------------------------------------------
(* Option and Result.                                                      *)

NoneV == <<>>
Some(v) == <<v>>
Ok(v) == [ok |-> TRUE, val |-> v]
Err == [ok |-> FALSE]

-----------------------------------------------------------------------------
(* The str and String operations the code calls.                           *)

Char(s, i) == SubSeq(s, i, i)

\* char::is_whitespace on the characters of the model's alphabet
is_whitespace(c) == c \in {" ", "\t", "\n", "\r"}

RECURSIVE trim_start(_)
trim_start(s) ==
    IF s # "" /\ is_whitespace(Char(s, 1))
    THEN trim_start(SubSeq(s, 2, Len(s)))
    ELSE s

RECURSIVE trim_end(_)
trim_end(s) ==
    IF s # "" /\ is_whitespace(Char(s, Len(s)))
    THEN trim_end(SubSeq(s, 1, Len(s) - 1))
    ELSE s

\* str::trim
trim(s) == trim_end(trim_start(s))

\* str::starts_with
starts_with(s, p) == Len(s) >= Len(p) /\ SubSeq(s, 1, Len(p)) = p

\* the slice s[n..]
slice_from(s, n) == SubSeq(s, n + 1, Len(s))

\* str::find: the index of the first occurrence of pat in s at or after i,
\* 0 when there is none
RECURSIVE find_from(_, _, _)
find_from(s, pat, i) ==
    IF i + Len(pat) - 1 > Len(s) THEN 0
    ELSE IF SubSeq(s, i, i + Len(pat) - 1) = pat THEN i
    ELSE find_from(s, pat, i + 1)

find(s, pat) == find_from(s, pat, 1)

\* str::split(sep).collect::<Vec<_>>()
RECURSIVE split(_, _)
split(s, sep) ==
    LET i == find(s, sep)
    IN  IF i = 0
        THEN <<s>>
        ELSE <<SubSeq(s, 1, i - 1)>> \o split(SubSeq(s, i + Len(sep), Len(s)), sep)

\* str::replace(from, to)
RECURSIVE replace(_, _, _)
replace(s, from, to) ==
    LET i == find(s, from)
    IN  IF i = 0
        THEN s
        ELSE SubSeq(s, 1, i - 1) \o to \o replace(SubSeq(s, i + Len(from), Len(s)), from, to)

\* [String]::join(sep)
RECURSIVE join(_, _)
join(v, sep) ==
    IF v = <<>> THEN ""
    ELSE IF Len(v) = 1 THEN v[1]
    ELSE v[1] \o sep \o join(Tail(v), sep)

-----------------------------------------------------------------------------
(* enum SynElement                                                         *)

Text(t) == [kind |-> "Text", text |-> t]
Code(t) == [kind |-> "Code", text |-> t]
Heading(t) == [kind |-> "Heading", text |-> t]
Image(p, a, s) == [kind |-> "Image", path |-> p, alt |-> a, style |-> s]
LineH == [kind |-> "LineH"]

\* parse_line with the ".img" arity check lost: missing fields read as empty
parse_line_lenient_img(raw) ==
    LET line == trim(raw)
    IN  IF line = "---" THEN Ok(LineH)
        ELSE IF starts_with(line, "#") THEN Ok(Heading(slice_from(line, 1)))
        ELSE IF starts_with(line, ".img ") THEN
            LET sections == split(slice_from(line, 5), "|") \o <<"", "">>
            IN  Ok(Image(sections[1], sections[2], sections[3]))
        ELSE IF starts_with(line, ".code ") THEN Ok(Code(slice_from(line, 6)))
        ELSE Ok(Text(line))

\* parse_line that trims the Heading payload once more
parse_line_trim_payload(raw) ==
    LET line == trim(raw)
    IN  IF line = "---" THEN Ok(LineH)
        ELSE IF starts_with(line, "#") THEN Ok(Heading(trim(slice_from(line, 1))))
        ELSE IF starts_with(line, ".img ") THEN
            LET sections == split(slice_from(line, 5), "|")
            IN  IF Len(sections) = 3
                THEN Ok(Image(sections[1], sections[2], sections[3]))
                ELSE Err
        ELSE IF starts_with(line, ".code ") THEN Ok(Code(slice_from(line, 6)))
        ELSE Ok(Text(line))

\* parse_line that cuts the ".code " prefix one character short
parse_line_short_prefix(raw) ==
    LET line == trim(raw)
    IN  IF line = "---" THEN Ok(LineH)
        ELSE IF starts_with(line, "#") THEN Ok(Heading(slice_from(line, 1)))
        ELSE IF starts_with(line, ".img ") THEN
            LET sections == split(slice_from(line, 5), "|")
            IN  IF Len(sections) = 3
                THEN Ok(Image(sections[1], sections[2], sections[3]))
                ELSE Err
        ELSE IF starts_with(line, ".code ") THEN Ok(Code(slice_from(line, 5)))
        ELSE Ok(Text(line))

\* SynElement::parse_line
parse_line(raw) ==
    LET line == trim(raw)
    IN  IF line = "---" THEN Ok(LineH)
        ELSE IF starts_with(line, "#") THEN Ok(Heading(slice_from(line, 1)))
        ELSE IF starts_with(line, ".img ") THEN
            LET sections == split(slice_from(line, 5), "|")
            IN  IF Len(sections) = 3
                THEN Ok(Image(sections[1], sections[2], sections[3]))
                ELSE Err
        ELSE IF starts_with(line, ".code ") THEN Ok(Code(slice_from(line, 6)))
        ELSE Ok(Text(line))

\* generate_tag that writes the alt text as an attribute and keeps newlines
generate_tag_alt_attr(e) ==
    CASE e.kind = "Text" -> "<p>" \o e.text \o "</p>"
      [] e.kind = "Code" -> "<p class='code'>" \o e.text \o "</p>"
      [] e.kind = "Heading" -> "<h2>" \o e.text \o "</h2>"
      [] e.kind = "Image" ->
            "<img src='" \o e.path \o "' alt='" \o e.alt \o "' style='" \o e.style \o "'>"
      [] e.kind = "LineH" -> "<div class='hline'></div>"

\* SynElement::generate_tag
generate_tag(e) ==
    CASE e.kind = "Text" -> "<p>" \o replace(e.text, "\n", "<br>") \o "</p>"
      [] e.kind = "Code" -> "<p class='code'>" \o e.text \o "</p>"
      [] e.kind = "Heading" -> "<h2>" \o e.text \o "</h2>"
      [] e.kind = "Image" ->
            "<img src='" \o e.path \o "' style='" \o e.style \o "'>" \o e.alt \o "</img>"
      [] e.kind = "LineH" -> "<div class='hline'></div>"

\* generate_line that separates the heading marker from its text
generate_line_spaced(e) ==
    CASE e.kind = "Text" -> e.text
      [] e.kind = "Code" -> ".code " \o e.text
      [] e.kind = "Heading" -> "# " \o e.text
      [] e.kind = "Image" -> ".img " \o e.path \o "|" \o e.alt \o "|" \o e.style
      [] e.kind = "LineH" -> "---"

\* SynElement::generate_line
generate_line(e) ==
    CASE e.kind = "Text" -> e.text
      [] e.kind = "Code" -> ".code " \o e.text
      [] e.kind = "Heading" -> "#" \o e.text
      [] e.kind = "Image" -> ".img " \o e.path \o "|" \o e.alt \o "|" \o e.style
      [] e.kind = "LineH" -> "---"

-----------------------------------------------------------------------------
(* u64, its FromStr and its Display.                                       *)

\* u64::MAX, 2^64 - 1
U64_MAX == <<1, 8, 4, 4, 6, 7, 4, 4, 0, 7, 3, 7, 0, 9, 5, 5, 1, 6, 1, 5>>
U64_ZERO == <<0>>

\* char::to_digit(10): the digit's value, -1 for any other character
to_digit(c) ==
    LET hits == {d \in 0..9 : Char("0123456789", d + 1) = c}
    IN  IF hits = {} THEN -1 ELSE CHOOSE d \in hits : TRUE

\* a <= b for digit sequences of the same length
RECURSIVE lex_le(_, _)
lex_le(a, b) ==
    IF a = <<>> THEN TRUE
    ELSE IF a[1] # b[1] THEN a[1] < b[1]
    ELSE lex_le(Tail(a), Tail(b))

\* a <= b for u64 values
u64_le(a, b) == Len(a) < Len(b) \/ (Len(a) = Len(b) /\ lex_le(a, b))

\* acc.checked_mul(10) and then checked_add(d): None on overflow
checked_mul10_add(acc, d) ==
    LET r == IF acc = U64_ZERO THEN <<d>> ELSE Append(acc, d)
    IN  IF u64_le(r, U64_MAX) THEN Some(r) ELSE NoneV

\* the digit loop of u64::from_str
RECURSIVE from_digits(_, _)
from_digits(digits, acc) ==
    IF digits = "" THEN Ok(acc)
    ELSE LET d == to_digit(Char(digits, 1))
         IN  IF d < 0 THEN Err
             ELSE LET r == checked_mul10_add(acc, d)
                  IN  IF r = NoneV THEN Err ELSE from_digits(slice_from(digits, 1), r[1])

\* str::parse::<u64>(): an optional "+", then one or more digits, in range
parse_u64(src) ==
    IF src = "" THEN Err
    ELSE IF src = "+" \/ src = "-" THEN Err
    ELSE IF Char(src, 1) = "+" THEN from_digits(slice_from(src, 1), U64_ZERO)
    ELSE from_digits(src, U64_ZERO)

\* Result::unwrap_or
unwrap_or(r, default) == IF r.ok THEN r.val ELSE default

\* Display for u64
RECURSIVE fmt_u64(_)
fmt_u64(v) ==
    IF v = <<>> THEN "" ELSE Char("0123456789", v[1] + 1) \o fmt_u64(Tail(v))

-----------------------------------------------------------------------------
(* struct SynFile and its operations.  A BufReader is modelled by the text *)
(* it has not read yet.  The text is ASCII, so a line's length in bytes is *)
(* its length in characters and read_line never fails; the path can be     *)
(* created, so save_file always writes.                                    *)

SynFile(title, tags, posted, summary, elements) ==
    [title |-> title, tags |-> tags, posted |-> posted, summary |-> summary,
     elements |-> elements]

\* BufRead::read_line: the bytes up to and including the next "\n", or up to
\* the end of input; len is their number, 0 at the end of input
read_line(reader) ==
    LET i == find(reader, "\n")
        n == IF i = 0 THEN Len(reader) ELSE i
    IN  [len |-> n, bytes |-> SubSeq(reader, 1, n), reader |-> SubSeq(reader, n + 1, Len(reader))]

\* line.split(",").map(|e| e.trim().to_string()).collect()
split_tags(line) ==
    LET parts == split(line, ",") IN [i \in 1..Len(parts) |-> trim(parts[i])]

\* the while loop of load_file: line is the buffer read_line appends to
RECURSIVE scan_body(_, _, _)
scan_body(reader, line, elements) ==
    LET r == read_line(reader)
        line1 == line \o r.bytes
        p == parse_line(line1)
        elements1 == IF r.len <= 1 /\ p.ok THEN Append(elements, p.val) ELSE elements
        line2 == IF r.len <= 1 THEN "" ELSE line1
    IN  IF r.len = 0 THEN elements1 ELSE scan_body(r.reader, line2, elements1)

\* SynFile::load_file on the file at the path (None: it cannot be opened)
load_file(file) ==
    IF file = NoneV THEN Err
    ELSE
        LET r1 == read_line(file[1])
            title == trim(r1.bytes)
            r2 == read_line(r1.reader)
            tags == split_tags(r2.bytes)
            r3 == read_line(r2.reader)
            posted == unwrap_or(parse_u64(trim(r3.bytes)), U64_ZERO)
            r4 == read_line(r3.reader)
            summary == trim(r4.bytes)
            \* line still holds the summary line when the loop starts
            elements == scan_body(r4.reader, r4.bytes, <<>>)
        IN  Ok(SynFile(title, tags, posted, summary, elements))

\* load_file_metadata that keeps the summary line as read
load_file_metadata_raw_summary(file) ==
    IF file = NoneV THEN Err
    ELSE
        LET r1 == read_line(file[1])
            r2 == read_line(r1.reader)
            r3 == read_line(r2.reader)
            r4 == read_line(r3.reader)
        IN  Ok(SynFile(trim(r1.bytes), split_tags(r2.bytes),
                       unwrap_or(parse_u64(trim(r3.bytes)), U64_ZERO), r4.bytes, <<>>))

\* load_file_metadata that propagates the timestamp's parse error
load_file_metadata_strict_posted(file) ==
    IF file = NoneV THEN Err
    ELSE
        LET r1 == read_line(file[1])
            r2 == read_line(r1.reader)
            r3 == read_line(r2.reader)
            r4 == read_line(r3.reader)
            posted == parse_u64(trim(r3.bytes))
        IN  IF posted.ok
            THEN Ok(SynFile(trim(r1.bytes), split_tags(r2.bytes), posted.val,
                            trim(r4.bytes), <<>>))
            ELSE Err

\* SynFile::load_file_metadata
load_file_metadata(file) ==
    IF file = NoneV THEN Err
    ELSE
        LET r1 == read_line(file[1])
            title == trim(r1.bytes)
            r2 == read_line(r1.reader)
            tags == split_tags(r2.bytes)
            r3 == read_line(r2.reader)
            posted == unwrap_or(parse_u64(trim(r3.bytes)), U64_ZERO)
            r4 == read_line(r3.reader)
            summary == trim(r4.bytes)
            elements == <<>>
        IN  Ok(SynFile(title, tags, posted, summary, elements))

\* the element loop of save_file
RECURSIVE write_elements(_)
write_elements(elements) ==
    IF elements = <<>> THEN ""
    ELSE generate_line(elements[1]) \o "\n\n" \o write_elements(Tail(elements))

\* SynFile::save_file: the text written to the created file
save_file(self) ==
    self.title \o "\n" \o join(self.tags, ",") \o "\n" \o fmt_u64(self.posted) \o "\n"
        \o self.summary \o "\n\n" \o write_elements(self.elements)

-----------------------------------------------------------------------------
(* The element level: a caller hands a wire line to parse_line or an       *)
(* element to generate_line and generate_tag, and feeds one's result to    *)
(* the other.                                                              *)

\* the pieces element lines and payloads are put together from
LineTokens == {"a", " ", "\n", "|", "#", "---", ".img ", ".code ", "p|a|s", "x|y"}
\* the pieces Image fields are put together from
FieldTokens == {"a", " ", "|", "w:1"}

\* every concatenation of at most n members of T
RECURSIVE Concats(_, _)
Concats(T, n) ==
    IF n = 0 THEN {""}
    ELSE LET S == Concats(T, n - 1) IN S \cup {s \o t : s \in S, t \in T}

Lines == Concats(LineTokens, MaxTokens)
Fields == Concats(FieldTokens, MaxFieldTokens)

\* the values of enum SynElement over the payloads of the model
Elements ==
    {Text(t) : t \in Lines} \cup {Code(t) : t \in Lines} \cup {Heading(t) : t \in Lines}
    \cup {Image(p, a, s) : p \in Fields, a \in Fields, s \in Fields}
    \cup {LineH}

InitElement ==
    /\ \/ srcLine \in {Some(s) : s \in Lines} /\ srcElem = NoneV
       \/ srcElem \in {Some(e) : e \in Elements} /\ srcLine = NoneV
    /\ parsed = NoneV /\ wire = NoneV /\ html = NoneV
    /\ mem = NoneV /\ disk = NoneV /\ written = NoneV /\ loaded = NoneV /\ meta = NoneV

\* the caller parses the line it was given, or the line generate_line made
\* of the element it constructed
ParseLine ==
    /\ parsed = NoneV
    /\ \/ srcLine # NoneV /\ parsed' = Some(parse_line(srcLine[1]))
       \/ srcLine = NoneV /\ wire # NoneV /\ parsed' = Some(parse_line(wire[1]))
    /\ UNCHANGED <<srcLine, srcElem, wire, html>>
    /\ UNCHANGED docVars

\* the caller writes the element it constructed, or the one parse_line returned
GenerateLine ==
    /\ wire = NoneV
    /\ \/ srcElem # NoneV /\ wire' = Some(generate_line(srcElem[1]))
       \/ /\ srcElem = NoneV /\ parsed # NoneV /\ parsed[1].ok
          /\ wire' = Some(generate_line(parsed[1].val))
    /\ UNCHANGED <<srcLine, srcElem, parsed, html>>
    /\ UNCHANGED docVars

\* the caller renders the element it constructed, or the one parse_line returned
GenerateTag ==
    /\ html = NoneV
    /\ \/ srcElem # NoneV /\ html' = Some(generate_tag(srcElem[1]))
       \/ /\ srcElem = NoneV /\ parsed # NoneV /\ parsed[1].ok
          /\ html' = Some(generate_tag(parsed[1].val))
    /\ UNCHANGED <<srcLine, srcElem, parsed, wire>>
    /\ UNCHANGED docVars

NextElement == ParseLine \/ GenerateLine \/ GenerateTag

SpecElement == InitElement /\ [][NextElement]_vars

-----------------------------------------------------------------------------
(* Properties of the element level.                                        *)

\* s neither starts nor ends with a whitespace character
NoSurroundingWhitespace(s) ==
    s = "" \/ (~is_whitespace(Char(s, 1)) /\ ~is_whitespace(Char(s, Len(s))))
NoLeadingWhitespace(s) == s = "" \/ ~is_whitespace(Char(s, 1))
NoTrailingWhitespace(s) == s = "" \/ ~is_whitespace(Char(s, Len(s)))
\* the number of occurrences of the character c in s
CountChar(s, c) == Cardinality({i \in 1..Len(s) : Char(s, i) = c})
\* the first n characters of s, and s without them
Prefix(s, n) == SubSeq(s, 1, IF Len(s) < n THEN Len(s) ELSE n)
Rest(s, n) == SubSeq(s, n + 1, Len(s))
\* the line matches one of the four rules tried before Text
MatchesMarkup(s) ==
    \/ s = "---"
    \/ Prefix(s, 1) = "#"
    \/ Prefix(s, 5) = ".img "
    \/ Prefix(s, 6) = ".code "

\* an element whose wire line reads back as the same element: nothing of it
\* is lost to the trim, split or classification of parse_line
Representable(e) ==
    CASE e.kind = "LineH" -> TRUE
      [] e.kind = "Heading" -> NoTrailingWhitespace(e.text)
      [] e.kind = "Code" -> e.text # "" /\ NoTrailingWhitespace(e.text)
      [] e.kind = "Image" ->
            /\ CountChar(e.path, "|") = 0 /\ CountChar(e.alt, "|") = 0
            /\ CountChar(e.style, "|") = 0
            /\ NoTrailingWhitespace(e.style)
      [] e.kind = "Text" -> NoSurroundingWhitespace(e.text) /\ ~MatchesMarkup(e.text)

\* the constructed element was written by generate_line and the line parsed
ElementWentRound == srcElem # NoneV /\ wire # NoneV /\ parsed # NoneV
\* the given line was parsed and the element written by generate_line
LineWentRound == srcLine # NoneV /\ parsed # NoneV /\ wire # NoneV

\* C3 as stated: for every constructible element e,
\* parse_line(generate_line(e)) succeeds and returns e.
C3_AnyElementRoundTrips ==
    ElementWentRound => parsed[1] = Ok(srcElem[1])

\* C3 amended: for every constructible element e that is representable (no
\* trailing whitespace in its last payload, a non-empty Code text, no "|" in
\* an Image field, a Text body without surrounding whitespace that matches no
\* markup rule), parse_line(generate_line(e)) succeeds and returns e.
C3_RepresentableElementRoundTrips ==
    (ElementWentRound /\ Representable(srcElem[1])) => parsed[1] = Ok(srcElem[1])

C3_Witness ==
    /\ ElementWentRound
    /\ srcElem[1] = Image("a", "w:1", "a")
    /\ parsed[1].ok

\* the amended C3 is the weakest condition: the other elements do not read back
C3_OnlyRepresentableRoundTrips ==
    (ElementWentRound /\ ~Representable(srcElem[1])) => parsed[1] # Ok(srcElem[1])

\* C4 as stated: for every line s that parse_line accepts and that does not
\* start with whitespace, generate_line(parse_line(s)) is exactly s.
C4_AcceptedLineRoundTrips ==
    (LineWentRound /\ NoLeadingWhitespace(srcLine[1])) => wire[1] = srcLine[1]

\* C4 amended: for every line s that parse_line accepts and that neither
\* starts nor ends with whitespace, generate_line(parse_line(s)) is exactly s.
C4_TrimmedLineRoundTrips ==
    (LineWentRound /\ NoSurroundingWhitespace(srcLine[1])) => wire[1] = srcLine[1]

C4_Witness ==
    /\ LineWentRound
    /\ srcLine[1] = ".img p|a|s"
    /\ wire[1] = ".img p|a|s"

\* C5: parse_line classifies a line without surrounding whitespace by the
\* first rule that matches: "---" is LineH; "#..." is Heading of all that
\* follows the first character; ".img ..." is Image of the three "|"-separated
\* segments after the prefix, and an error unless there are exactly three;
\* ".code ..." is Code of all that follows the prefix; anything else is Text
\* of the line itself.
C5_ClassificationOrder ==
    (srcLine # NoneV /\ parsed # NoneV /\ NoSurroundingWhitespace(srcLine[1])) =>
        LET s == srcLine[1]
            r == parsed[1]
        IN  CASE s = "---" -> r = Ok(LineH)
              [] s # "---" /\ Prefix(s, 1) = "#" -> r = Ok(Heading(Rest(s, 1)))
              [] Prefix(s, 5) = ".img " ->
                    /\ r.ok <=> CountChar(Rest(s, 5), "|") = 2
                    /\ r.ok =>
                        /\ r.val.kind = "Image"
                        /\ CountChar(r.val.path, "|") = 0
                        /\ CountChar(r.val.alt, "|") = 0
                        /\ CountChar(r.val.style, "|") = 0
                        /\ r.val.path \o "|" \o r.val.alt \o "|" \o r.val.style = Rest(s, 5)
              [] Prefix(s, 6) = ".code " -> r = Ok(Code(Rest(s, 6)))
              [] OTHER -> r = Ok(Text(s))

C5_Witness ==
    /\ srcLine # NoneV /\ parsed # NoneV
    /\ srcLine[1] = ".img x|yp|a|s"
    /\ ~parsed[1].ok

\* "\n" by "<br>", character by character
RECURSIVE BreakLines(_)
BreakLines(t) ==
    IF t = "" THEN ""
    ELSE (IF Char(t, 1) = "\n" THEN "<br>" ELSE Char(t, 1)) \o BreakLines(Rest(t, 1))

\* the element generate_tag was called on
Rendered == IF srcElem # NoneV THEN srcElem[1] ELSE parsed[1].val

\* C10: generate_tag maps each kind to its fixed HTML shape with the payload
\* unescaped: Text(t) to <p>, t with each newline as <br>, </p>, with no
\* newline left; Code(t) to <p class='code'>t</p>; Heading(t) to <h2>t</h2>;
\* Image(p,a,s) to <img src='p' style='s'>a</img>; LineH to
\* <div class='hline'></div>.
C10_TagShapes ==
    html # NoneV =>
        LET e == Rendered
            out == html[1]
        IN  CASE e.kind = "Text" ->
                    /\ out = "<p>" \o BreakLines(e.text) \o "</p>"
                    /\ CountChar(out, "\n") = 0
              [] e.kind = "Code" -> out = "<p class='code'>" \o e.text \o "</p>"
              [] e.kind = "Heading" -> out = "<h2>" \o e.text \o "</h2>"
              [] e.kind = "Image" ->
                    out = "<img src='" \o e.path \o "' style='" \o e.style
                            \o "'>" \o e.alt \o "</img>"
              [] e.kind = "LineH" -> out = "<div class='hline'></div>"

C10_Witness ==
    /\ html # NoneV /\ srcElem # NoneV
    /\ srcElem[1] = Text("a\n|")
    /\ html[1] = "<p>a<br>|</p>"

-----------------------------------------------------------------------------
(* The document level: a SynFile is constructed and saved, or an author    *)
(* writes the file with an editor; the file is then loaded in full and as  *)
(* metadata only.                                                          *)

\* every sequence of at most n members of S
RECURSIVE SeqsUpTo(_, _)
SeqsUpTo(S, n) ==
    IF n = 0 THEN {<<>>}
    ELSE LET R == SeqsUpTo(S, n - 1) IN R \cup {Append(r, x) : r \in R, x \in S}

\* the fields constructed documents are made of
DocTitles == {"My Post"}
DocTags == {"x", "y z"}
DocPosted == {<<4, 2>>, U64_MAX}
DocSummaries == {"S", ""}
DocElements == {Text("foo"), Code("x"), Heading("H"), Image("p", "a", "s"), LineH}

Documents ==
    {SynFile(t, g, p, m, e) :
        t \in DocTitles, g \in SeqsUpTo(DocTags, MaxTags), p \in DocPosted,
        m \in DocSummaries, e \in SeqsUpTo(DocElements, MaxElems)}

\* the header lines and body blocks authored files are made of
\* a title line and a tags line
HeaderTops == {<<"T", "x">>, <<" My Post ", "x, y z ,">>}
PostedLines == {"42", "0", " 7 ", "+5", "007", "-1", "", "not-a-number",
                "18446744073709551615", "18446744073709551616"}
SummaryLines == {"S", ".img a|b", ""}
BodyBlocks == {"#H", "---", ".img p|a|s", ".img a|b", "a\nb"}
\* what follows the last block: a blank line, its line terminator only, nothing
Tails == {"blank", "newline", "none"}

\* the lines, each with its terminator
RECURSIVE terminated(_)
terminated(lines) ==
    IF lines = <<>> THEN "" ELSE lines[1] \o "\n" \o terminated(Tail(lines))

\* the wire form of section 6 of the format: the header lines, a blank line,
\* the blocks with a blank line between them, and the tail
WireText(header, blocks, tail) ==
    terminated(header) \o "\n"
        \o (IF blocks = <<>> THEN ""
            ELSE join(blocks, "\n\n")
                    \o (CASE tail = "blank" -> "\n\n"
                          [] tail = "newline" -> "\n"
                          [] tail = "none" -> ""))

\* a file cut short inside its header: the lines, the last one with or
\* without its terminator
TruncatedText(header, tail) ==
    IF tail = "none" THEN join(header, "\n") ELSE terminated(header)

InitDocument ==
    /\ mem = NoneV /\ disk = NoneV /\ written = NoneV /\ loaded = NoneV /\ meta = NoneV
    /\ srcLine = NoneV /\ srcElem = NoneV /\ parsed = NoneV /\ wire = NoneV /\ html = NoneV

\* a SynFile is built in memory
Construct ==
    /\ mem = NoneV /\ disk = NoneV /\ loaded = NoneV /\ meta = NoneV
    /\ \E d \in Documents : mem' = Some(d)
    /\ UNCHANGED <<disk, written, loaded, meta>>
    /\ UNCHANGED elemVars

\* save_file on the SynFile in memory
SaveFile ==
    /\ mem # NoneV /\ disk = NoneV /\ loaded = NoneV /\ meta = NoneV
    /\ disk' = Some(save_file(mem[1]))
    /\ UNCHANGED <<mem, written, loaded, meta>>
    /\ UNCHANGED elemVars

\* an author writes a whole document in the wire form
WriteDocument ==
    /\ mem = NoneV /\ disk = NoneV /\ loaded = NoneV /\ meta = NoneV
    /\ \E top \in HeaderTops, p \in PostedLines, m \in SummaryLines,
          bs \in SeqsUpTo(BodyBlocks, MaxBlocks), tail \in Tails :
            LET header == <<top[1], top[2], p, m>>
            IN  /\ bs = <<>> => tail = "blank"
                /\ written' = Some([header |-> header, blocks |-> bs, tail |-> tail])
                /\ disk' = Some(WireText(header, bs, tail))
    /\ UNCHANGED <<mem, loaded, meta>>
    /\ UNCHANGED elemVars

\* the file is cut short: it holds fewer than 4 header lines
WriteTruncated ==
    /\ mem = NoneV /\ disk = NoneV /\ loaded = NoneV /\ meta = NoneV
    /\ \E n \in 0..3, top \in HeaderTops, p \in PostedLines, tail \in {"newline", "none"} :
            LET header == SubSeq(<<top[1], top[2], p>>, 1, n)
            IN  /\ written' = Some([header |-> header, blocks |-> <<>>, tail |-> tail])
                /\ disk' = Some(TruncatedText(header, tail))
    /\ UNCHANGED <<mem, loaded, meta>>
    /\ UNCHANGED elemVars

\* load_file on the path
LoadFile ==
    /\ loaded = NoneV
    /\ loaded' = Some(load_file(disk))
    /\ UNCHANGED <<mem, disk, written, meta>>
    /\ UNCHANGED elemVars

\* load_file_metadata on the path
LoadFileMetadata ==
    /\ meta = NoneV
    /\ meta' = Some(load_file_metadata(disk))
    /\ UNCHANGED <<mem, disk, written, loaded>>
    /\ UNCHANGED elemVars

Init == InitDocument

Next ==
    \/ Construct
    \/ SaveFile
    \/ WriteDocument
    \/ WriteTruncated
    \/ LoadFile
    \/ LoadFileMetadata

Spec == Init /\ [][Next]_vars

-----------------------------------------------------------------------------
(* Properties of the document level.                                       *)

\* the file was written by save_file from the SynFile in memory
Saved == mem # NoneV /\ disk # NoneV
\* the file was written by an author as a whole document
Authored == written # NoneV /\ Len(written[1].header) = 4
\* the file was cut short inside its header
Truncated == written # NoneV /\ Len(written[1].header) < 4

\* C1 as stated: saving a constructed document and loading the written text
\* yields a document equal to it in title, tags, posted, summary and elements.
C1_DocumentRoundTrip ==
    (Saved /\ loaded # NoneV) => loaded[1] = Ok(mem[1])

\* the elements parse_line returns for the blocks it accepts, in order
RECURSIVE AcceptedElements(_)
AcceptedElements(blocks) ==
    IF blocks = <<>> THEN <<>>
    ELSE LET r == parse_line(blocks[1])
         IN  (IF r.ok THEN <<r.val>> ELSE <<>>) \o AcceptedElements(Tail(blocks))

\* C2 as stated: for the 4 header lines, a blank line and k blocks separated
\* by blank lines, load_file returns exactly one element per accepted block,
\* in block order, and nothing else, whatever follows the last block.
C2_BodyScan ==
    (Authored /\ loaded # NoneV) =>
        /\ loaded[1].ok
        /\ loaded[1].val.elements = AcceptedElements(written[1].blocks)

\* a ".img" block without exactly 3 pipe-separated segments
Malformed(b) == Prefix(b, 5) = ".img " /\ CountChar(Rest(b, 5), "|") # 2

\* the blocks but the malformed ones
RECURSIVE WellFormed(_)
WellFormed(blocks) ==
    IF blocks = <<>> THEN <<>>
    ELSE (IF Malformed(blocks[1]) THEN <<>> ELSE <<blocks[1]>>) \o WellFormed(Tail(blocks))

\* blocks holds exactly one malformed block
OneMalformed(blocks) == Len(WellFormed(blocks)) = Len(blocks) - 1

C7_TruncatedHeaderFails ==
    (Truncated /\ loaded # NoneV) => ~loaded[1].ok

\* the text without its leading and trailing whitespace
Strip(s) ==
    LET solid == {i \in 1..Len(s) : ~is_whitespace(Char(s, i))}
    IN  IF solid = {} THEN ""
        ELSE SubSeq(s, CHOOSE i \in solid : \A j \in solid : i <= j,
                       CHOOSE i \in solid : \A j \in solid : i >= j)

\* the value of a decimal digit, 10 for any other character
DigitValue(c) ==
    IF \E d \in 0..9 : Char("0123456789", d + 1) = c
    THEN CHOOSE d \in 0..9 : Char("0123456789", d + 1) = c
    ELSE 10

\* the text is one or more decimal digits
AllDigits(s) == s # "" /\ \A i \in 1..Len(s) : DigitValue(Char(s, i)) < 10

\* the digits without their leading zeros (one is kept of a zero)
Significant(s) ==
    LET nonzero == {i \in 1..Len(s) : Char(s, i) # "0"}
    IN  IF nonzero = {} THEN "0"
        ELSE SubSeq(s, CHOOSE i \in nonzero : \A j \in nonzero : i <= j, Len(s))

\* the decimal digits, an optional "+" before them dropped
Unsigned(s) == IF Prefix(s, 1) = "+" THEN Rest(s, 1) ELSE s

\* a <= b for digit strings of the same length
NumLe(a, b) ==
    \/ a = b
    \/ \E i \in 1..Len(a) :
        /\ SubSeq(a, 1, i - 1) = SubSeq(b, 1, i - 1)
        /\ DigitValue(Char(a, i)) < DigitValue(Char(b, i))

\* the line holds an unsigned decimal integer of at most 2^64 - 1
ValidTimestamp(line) ==
    LET s == Unsigned(Strip(line))
    IN  /\ AllDigits(s)
        /\ \/ Len(Significant(s)) < 20
           \/ Len(Significant(s)) = 20 /\ NumLe(Significant(s), "18446744073709551615")

\* the u64 the line holds
TimestampValue(line) ==
    LET s == Significant(Unsigned(Strip(line)))
    IN  [i \in 1..Len(s) |-> DigitValue(Char(s, i))]

\* the authored file with "0" for its timestamp line
WithZeroTimestamp ==
    LET w == written[1]
    IN  Some(WireText(<<w.header[1], w.header[2], "0", w.header[4]>>, w.blocks, w.tail))

\* the load succeeded, the timestamp is the line's value or 0, and the other
\* header fields are those of the reference load
LenientTimestamp(r, ref) ==
    /\ r.ok
    /\ r.val.posted =
        IF ValidTimestamp(written[1].header[3])
        THEN TimestampValue(written[1].header[3])
        ELSE <<0>>
    /\ r.val.title = ref.val.title
    /\ r.val.tags = ref.val.tags
    /\ r.val.summary = ref.val.summary

\* C8: when the third header line is no valid unsigned 64-bit decimal,
\* load_file and load_file_metadata succeed with posted = 0 and with title,
\* tags and summary as for a valid timestamp; when it is valid, posted is
\* its value.
C8_LenientTimestamp ==
    Authored =>
        /\ loaded # NoneV => LenientTimestamp(loaded[1], load_file(WithZeroTimestamp))
        /\ meta # NoneV => LenientTimestamp(meta[1], load_file_metadata(WithZeroTimestamp))

C8_Witness ==
    /\ Authored /\ loaded # NoneV /\ meta # NoneV
    /\ written[1].header[3] = "18446744073709551616"
    /\ loaded[1].ok /\ loaded[1].val.posted = <<0>>
    /\ meta[1].ok /\ meta[1].val.posted = <<0>>
    /\ loaded[1].val.title = "My Post"

\* C9: load_file_metadata succeeds exactly when load_file does, returns the
\* same title, tags, posted and summary, and always an empty elements.
C9_MetadataAgrees ==
    /\ (loaded # NoneV /\ meta # NoneV) =>
        /\ meta[1].ok <=> loaded[1].ok
        /\ meta[1].ok =>
            /\ meta[1].val.title = loaded[1].val.title
            /\ meta[1].val.tags = loaded[1].val.tags
            /\ meta[1].val.posted = loaded[1].val.posted
            /\ meta[1].val.summary = loaded[1].val.summary
    /\ (meta # NoneV /\ meta[1].ok) => meta[1].val.elements = <<>>

C9_Witness ==
    /\ Authored /\ loaded # NoneV /\ meta # NoneV
    /\ written[1].blocks = <<"#H", "a\nb">>
    /\ written[1].header[4] = "S"
    /\ loaded[1].ok /\ Len(loaded[1].val.elements) >= 2
    /\ meta[1].ok /\ meta[1].val.elements = <<>>
    /\ meta[1].val.summary = "S"

====
